---- MODULE Spec2Model ----
(***************************************************************************)
(* Model of the charity selection engine of charity-selector               *)
(* (src/charity-selector/src/charitySelector.ts): selectCharities with its *)
(* helpers getRandomInt, selectRandomItems, createTailoringRules and       *)
(* applyTailoringRules, and validateCharity of utils/csvReader.ts.         *)
(*                                                                         *)
(* A charity is referred to by its row number in the charities file (an    *)
(* object reference); its fields are read through the variable charities.  *)
(* Two rows may carry the same id.                                         *)
(***************************************************************************)
EXTENDS Integers, Sequences, FiniteSets, TLC

(***************************************************************************)
(* Program constants: DEFAULT_CONSTRAINTS.                                 *)
(***************************************************************************)
totalCharities == 12
maxStateCharities == 5
minAnimalCharitiesIfPets == 4

(***************************************************************************)
(* Bounds of the explored inputs.                                          *)
(***************************************************************************)
\* smallest and largest number of eligible rows (national + matching state)
MinEligible == 9
MaxEligible == 13
\* largest number of ANIMAL_RELATED rows in one pool
MaxAnimal == 3
\* rows with an empty featured value / STATE rows of another state that the
\* "extras" variant of an input adds
MaxUnset == 1
MaxOtherState == 1
\* number of orderings the final shuffle is explored with
ShuffleCuts == 1

UserState == "NEW_YORK"
OtherState == "TEXAS"
Variants == {"plain", "extras", "dup"}

VARIABLES
    charities,              \* rows of the charities file (rawCharities)
    userProfile,            \* the parsed user profile
    pc,                     \* position in selectCharities
    validCharities,         \* rows that passed validateCharity
    nationalCharities,      \* national pool
    stateCharities,         \* matching state pool
    selectedStateCount,     \* planned number of state charities
    selectedNationalCount,  \* planned number of national charities
    tailoringResult,        \* what applyTailoringRules returned
    finalSelection,         \* rule-selected and sampled rows, concatenated
    result,                 \* the returned (shuffled) selection
    error,                  \* the error the call rejected with
    warnings,               \* console.warn lines written by the call
    randomDrawn,            \* a random number was drawn during the call
    prevResult              \* result of the previous call on the same input

vars == <<charities, userProfile, pc, validCharities, nationalCharities,
          stateCharities, selectedStateCount, selectedNationalCount,
          tailoringResult, finalSelection, result, error, warnings,
          randomDrawn, prevResult>>

(***************************************************************************)
(* Helpers on numbers and sequences.                                       *)
(***************************************************************************)
Min2(a, b) == IF a <= b THEN a ELSE b
Min3(a, b, c) == Min2(a, Min2(b, c))

Range(s) == {s[i] : i \in 1..Len(s)}

RECURSIVE Rep(_, _)
Rep(n, x) == IF n <= 0 THEN <<>> ELSE <<x>> \o Rep(n - 1, x)

\* the subsequences of items of length k
RECURSIVE SubSeqs(_, _)
SubSeqs(items, k) ==
    IF k = 0 THEN {<<>>}
    ELSE IF Len(items) < k THEN {}
    ELSE {<<Head(items)>> \o r : r \in SubSeqs(Tail(items), k - 1)}
             \cup SubSeqs(Tail(items), k)

(***************************************************************************)
(* The explored inputs.  The rows of a file are, in this order: national   *)
(* animal, national other, state animal, state other rows, then (variant   *)
(* "extras") rows that are not eligible or not valid.  Row i has id i; in  *)
(* variant "dup" row 2 carries the id of row 1.  The empty id is 0.        *)
(***************************************************************************)
Row(name, state, category, featured, hasId) ==
    [name |-> name, state |-> state, category |-> category,
     featured |-> featured, hasId |-> hasId]

ExtraRows ==
    Rep(MaxUnset, Row("c", UserState, "ANIMAL_RELATED", "", TRUE))
    \o Rep(MaxOtherState, Row("c", OtherState, "ANIMAL_RELATED", "STATE", TRUE))
    \o << Row("c", UserState, "OTHER", "NATIONAL", FALSE),
          Row("", UserState, "OTHER", "NATIONAL", TRUE),
          Row("c", UserState, "OTHER", "LOCAL", TRUE),
          Row("c", "", "OTHER", "STATE", TRUE) >>

Rows(nNA, nNO, nSA, nSO, variant) ==
    Rep(nNA, Row("c", OtherState, "ANIMAL_RELATED", "NATIONAL", TRUE))
    \o Rep(nNO, Row("c", UserState, "OTHER", "NATIONAL", TRUE))
    \o Rep(nSA, Row("c", UserState, "ANIMAL_RELATED", "STATE", TRUE))
    \o Rep(nSO, Row("c", UserState, "OTHER", "STATE", TRUE))
    \o (IF variant = "extras" THEN ExtraRows ELSE <<>>)

MakeCharities(nNA, nNO, nSA, nSO, variant) ==
    LET rows == Rows(nNA, nNO, nSA, nSO, variant) IN
    [i \in 1..Len(rows) |->
        [id |-> IF ~rows[i].hasId THEN 0
                ELSE IF variant = "dup" /\ i = 2 THEN 1 ELSE i,
         name |-> rows[i].name,
         state |-> rows[i].state,
         category |-> rows[i].category,
         featured |-> rows[i].featured]]

InputCharities ==
    {MakeCharities(p[1], p[2], p[3], p[4], v) :
        p \in {q \in (0..MaxAnimal) \X (0..MaxEligible) \X (0..MaxAnimal) \X (0..MaxEligible) :
                 /\ q[1] + q[2] + q[3] + q[4] >= MinEligible
                 /\ q[1] + q[2] + q[3] + q[4] <= MaxEligible},
        v \in Variants}

NoError == [kind |-> "none", need |-> 0, have |-> 0, national |-> 0, state |-> 0]
NoTailoring == [national |-> <<>>, state |-> <<>>,
                remainingNational |-> 0, remainingState |-> 0]

(***************************************************************************)
(* validateCharity (utils/csvReader.ts).                                   *)
(***************************************************************************)
\* validateCharity that looks at the id only
validateCharity_IdOnly(c) == c.id # 0

validateCharity(c) ==
    IF c.id = 0 \/ c.name = "" THEN FALSE
    ELSE IF c.featured # "" /\ c.featured \notin {"NATIONAL", "STATE", ""} THEN FALSE
    ELSE IF c.featured = "STATE" /\ c.state = "" THEN FALSE
    ELSE TRUE

(***************************************************************************)
(* Filters of selectCharities over rows, given as row numbers.             *)
(***************************************************************************)
AllRows == [i \in 1..Len(charities) |-> i]

FilterValid(rows) == SelectSeq(rows, LAMBDA i : validateCharity(charities[i]))

\* FilterNational that takes every row not featured STATE
FilterNational_NotState(rows) ==
    SelectSeq(rows, LAMBDA i : charities[i].featured # "STATE")

FilterNational(rows) ==
    SelectSeq(rows, LAMBDA i : charities[i].featured = "NATIONAL")

\* FilterState without the comparison of the state to the user's state
FilterState_AnyState(rows, profile) ==
    SelectSeq(rows, LAMBDA i : charities[i].featured = "STATE")

FilterState(rows, profile) ==
    SelectSeq(rows, LAMBDA i : charities[i].featured = "STATE"
                               /\ charities[i].state = profile.state)

\* items.filter(c => c.category === category).length and its list
FilterCategory(rows, category) ==
    SelectSeq(rows, LAMBDA i : charities[i].category = category)

\* FilterNotSelected with the filter left out: claimed rows stay in the pool
FilterNotSelected_Keep(pool, selected) == pool

\* pool.filter(c => !selected.some(s => s.id === c.id))
FilterNotSelected(pool, selected) ==
    SelectSeq(pool, LAMBDA i :
        \A k \in 1..Len(selected) : charities[selected[k]].id # charities[i].id)

(***************************************************************************)
(* getRandomInt(min, max): the values Math.floor(Math.random() *           *)
(* (max - min + 1)) + min can take.                                        *)
(***************************************************************************)
\* getRandomInt that always returns min
getRandomInt_Min(min, max) == {min}

\* getRandomInt whose range is one too wide
getRandomInt_OffByOne(min, max) == min..(max + 1)

getRandomInt(min, max) == min..max

(***************************************************************************)
(* selectRandomItems(items, count): the draws it can return.  A draw is    *)
(* kept in file order: the order lodash's shuffle gives it is erased by    *)
(* the final shuffle and never read before.                                *)
(***************************************************************************)
\* selectRandomItems without the shuffle: the first count items
selectRandomItems_First(items, count) ==
    IF count <= 0 THEN {<<>>}
    ELSE {SubSeq(items, 1, Min2(count, Len(items)))}

\* selectRandomItems without the test for count <= 0: slice(0, count) with
\* a negative count keeps all but the last -count items
selectRandomItems_NoGuard(items, count) ==
    IF count >= Len(items) THEN {items}
    ELSE IF count >= 0 THEN SubSeqs(items, count)
    ELSE IF Len(items) + count > 0 THEN SubSeqs(items, Len(items) + count)
    ELSE {<<>>}

selectRandomItems(items, count) ==
    IF count <= 0 THEN {<<>>}
    ELSE IF count >= Len(items) THEN {items}
    ELSE SubSeqs(items, count)

(***************************************************************************)
(* shuffle(finalSelection): the final orderings explored.  lodash's        *)
(* shuffle can return every permutation of the list; the ones explored are *)
(* the list in file order (every occurrence kept), rotated by              *)
(* 1 .. ShuffleCuts places.                                                *)
(***************************************************************************)
RECURSIVE Insert(_, _)
Insert(x, sorted) ==
    IF sorted = <<>> THEN <<x>>
    ELSE IF x <= Head(sorted) THEN <<x>> \o sorted
    ELSE <<Head(sorted)>> \o Insert(x, Tail(sorted))

RECURSIVE InFileOrder(_)
InFileOrder(s) == IF s = <<>> THEN <<>> ELSE Insert(Head(s), InFileOrder(Tail(s)))

Rotate(s, k) ==
    IF Len(s) = 0 THEN s
    ELSE [i \in 1..Len(s) |-> s[((i - 1 + k) % Len(s)) + 1]]

\* shuffle that loses the last item of the list
shuffle_DropLast(s) ==
    {Rotate(InFileOrder(SubSeq(s, 1, Len(s) - 1)), k) : k \in 1..ShuffleCuts}

shuffle(s) == {Rotate(InFileOrder(s), k) : k \in 1..ShuffleCuts}

InitWith(inputs) ==
    /\ charities \in inputs
    /\ userProfile \in {[state |-> UserState, hasPets |-> h] : h \in BOOLEAN}
    /\ pc = "start"
    /\ validCharities = <<>>
    /\ nationalCharities = <<>>
    /\ stateCharities = <<>>
    /\ selectedStateCount = 0
    /\ selectedNationalCount = 0
    /\ tailoringResult = NoTailoring
    /\ finalSelection = <<>>
    /\ result = <<>>
    /\ error = NoError
    /\ warnings = {}
    /\ randomDrawn = FALSE
    /\ prevResult = <<>>

Init == InitWith(InputCharities)

(***************************************************************************)
(* A throw inside selectCharities: the call rejects and its locals are     *)
(* gone.                                                                   *)
(***************************************************************************)
Fail(err) ==
    /\ pc' = "failed"
    /\ error' = err
    /\ validCharities' = <<>>
    /\ nationalCharities' = <<>>
    /\ stateCharities' = <<>>
    /\ selectedStateCount' = 0
    /\ selectedNationalCount' = 0
    /\ tailoringResult' = NoTailoring
    /\ finalSelection' = <<>>
    /\ result' = <<>>

(***************************************************************************)
(* selectCharities, lines 126-142: load, validate, first supply check.     *)
(***************************************************************************)
\* LoadAndValidate without the first supply check
LoadAndValidate_NoCheck ==
    /\ pc = "start"
    /\ validCharities' = FilterValid(AllRows)
    /\ pc' = "partition"
    /\ UNCHANGED <<charities, userProfile, nationalCharities, stateCharities,
                   selectedStateCount, selectedNationalCount, tailoringResult,
                   finalSelection, result, error, warnings, randomDrawn, prevResult>>

LoadAndValidate ==
    /\ pc = "start"
    /\ LET valid == FilterValid(AllRows) IN
       IF Len(valid) < totalCharities
       THEN /\ Fail([kind |-> "Insufficient charities", need |-> totalCharities,
                     have |-> Len(valid), national |-> 0, state |-> 0])
            /\ UNCHANGED <<charities, userProfile, warnings, randomDrawn, prevResult>>
       ELSE /\ validCharities' = valid
            /\ pc' = "partition"
            /\ UNCHANGED <<charities, userProfile, nationalCharities, stateCharities,
                           selectedStateCount, selectedNationalCount, tailoringResult,
                           finalSelection, result, error, warnings, randomDrawn,
                           prevResult>>

(***************************************************************************)
(* selectCharities, lines 144-150: the two pools.                          *)
(***************************************************************************)
Partition ==
    /\ pc = "partition"
    /\ nationalCharities' = FilterNational(validCharities)
    /\ stateCharities' = FilterState(validCharities, userProfile)
    /\ pc' = "plan"
    /\ UNCHANGED <<charities, userProfile, validCharities, selectedStateCount,
                   selectedNationalCount, tailoringResult, finalSelection, result,
                   error, warnings, randomDrawn, prevResult>>

(***************************************************************************)
(* selectCharities, lines 152-155: the random state count.                 *)
(***************************************************************************)
\* maxPossibleState without the cap maxStateCharities
maxPossibleState_NoCap(state) == Len(state)

maxPossibleState(state) == Min2(maxStateCharities, Len(state))

DrawStateCount ==
    /\ pc = "plan"
    /\ \E r \in getRandomInt(0, maxPossibleState(stateCharities)) :
          /\ selectedStateCount' = r
          /\ selectedNationalCount' = totalCharities - r
    /\ randomDrawn' = TRUE
    /\ pc' = "pets"
    /\ UNCHANGED <<charities, userProfile, validCharities, nationalCharities,
                   stateCharities, tailoringResult, finalSelection, result, error,
                   warnings, prevResult>>

(***************************************************************************)
(* selectCharities, lines 157-185: the plan [national, state] after the    *)
(* animal adjustment of a plan with national count n and state count s.    *)
(***************************************************************************)
\* PetAdjust without the adjustment
PetAdjust_None(profile, national, state, n, s) ==
    [national |-> n, state |-> s, branch |-> "none"]

PetAdjust(profile, national, state, n, s) ==
    LET availableAnimalNational == Len(FilterCategory(national, "ANIMAL_RELATED"))
        availableAnimalState == Len(FilterCategory(state, "ANIMAL_RELATED"))
        totalAvailableAnimals == availableAnimalNational + availableAnimalState
        maxAnimalFromState == Min2(availableAnimalState, s)
        maxAnimalFromNational == Min2(availableAnimalNational, n)
        neededMoreAnimals ==
            minAnimalCharitiesIfPets - (maxAnimalFromState + maxAnimalFromNational)
        stateCap == Min2(maxStateCharities, Len(state))
    IN
    IF ~profile.hasPets THEN [national |-> n, state |-> s, branch |-> "none"]
    ELSE IF ~(totalAvailableAnimals >= minAnimalCharitiesIfPets)
         THEN [national |-> n, state |-> s, branch |-> "none"]
    ELSE IF ~(maxAnimalFromState + maxAnimalFromNational < minAnimalCharitiesIfPets)
         THEN [national |-> n, state |-> s, branch |-> "none"]
    ELSE IF availableAnimalNational > maxAnimalFromNational /\ n < Len(national)
         THEN LET canIncrease == Min3(neededMoreAnimals,
                                      availableAnimalNational - maxAnimalFromNational,
                                      Len(national) - n)
              IN [national |-> n + canIncrease, state |-> s - canIncrease,
                  branch |-> "national"]
    ELSE IF availableAnimalState > maxAnimalFromState /\ s < stateCap
         THEN LET canIncrease == Min3(neededMoreAnimals,
                                      availableAnimalState - maxAnimalFromState,
                                      stateCap - s)
              IN [national |-> n - canIncrease, state |-> s + canIncrease,
                  branch |-> "state"]
    ELSE [national |-> n, state |-> s, branch |-> "none"]

AdjustForPets ==
    /\ pc = "pets"
    /\ LET plan == PetAdjust(userProfile, nationalCharities, stateCharities,
                             selectedNationalCount, selectedStateCount) IN
          /\ selectedNationalCount' = plan.national
          /\ selectedStateCount' = plan.state
    /\ pc' = "shortage"
    /\ UNCHANGED <<charities, userProfile, validCharities, nationalCharities,
                   stateCharities, tailoringResult, finalSelection, result, error,
                   warnings, randomDrawn, prevResult>>

(***************************************************************************)
(* selectCharities, lines 189-211: the plan after the national-shortage    *)
(* adjustment, or the error it throws.                                     *)
(***************************************************************************)
\* ShortageAdjust that clamps the national count and never throws
ShortageAdjust_NoThrow(national, state, n, s) ==
    LET shortage == n - Len(national)
        canAddToState == Min2(shortage, Min2(maxStateCharities, Len(state)) - s)
    IN
    IF ~(n > Len(national))
    THEN [national |-> n, state |-> s, warned |-> FALSE, error |-> NoError]
    ELSE [national |-> Min2(n - canAddToState, Len(national)),
          state |-> s + canAddToState, warned |-> TRUE, error |-> NoError]

\* ShortageAdjust that shifts the whole shortage to the state pool, with no
\* regard to maxStateCharities
ShortageAdjust_Uncapped(national, state, n, s) ==
    LET shortage == n - Len(national)
        canAddToState == Min2(shortage, Len(state) - s)
        s1 == s + canAddToState
        n1 == n - canAddToState
    IN
    IF ~(n > Len(national))
    THEN [national |-> n, state |-> s, warned |-> FALSE, error |-> NoError]
    ELSE IF ~(n1 > Len(national))
    THEN [national |-> n1, state |-> s1, warned |-> TRUE, error |-> NoError]
    ELSE [national |-> Len(national), state |-> s1, warned |-> TRUE,
          error |-> [kind |-> "Insufficient total charities",
                     need |-> totalCharities, have |-> Len(national) + s1,
                     national |-> Len(national), state |-> s1]]

\* ShortageAdjust that never shifts the shortage to the state pool
ShortageAdjust_NoShift(national, state, n, s) ==
    IF ~(n > Len(national))
    THEN [national |-> n, state |-> s, warned |-> FALSE, error |-> NoError]
    ELSE [national |-> Len(national), state |-> s, warned |-> TRUE,
          error |-> [kind |-> "Insufficient total charities",
                     need |-> totalCharities, have |-> Len(national) + s,
                     national |-> Len(national), state |-> s]]

\* ShortageAdjust whose error reports the state count before the shift
ShortageAdjust_ReportsDraw(national, state, n, s) ==
    LET shortage == n - Len(national)
        maxPossibleStateAdjusted == Min2(maxStateCharities, Len(state))
        canAddToState == Min2(shortage, maxPossibleStateAdjusted - s)
        s1 == s + canAddToState
        n1 == n - canAddToState
        totalAvailable == Len(national) + s1
    IN
    IF ~(n > Len(national))
    THEN [national |-> n, state |-> s, warned |-> FALSE, error |-> NoError]
    ELSE IF ~(n1 > Len(national))
    THEN [national |-> n1, state |-> s1, warned |-> TRUE, error |-> NoError]
    ELSE IF totalAvailable < totalCharities
    THEN [national |-> Len(national), state |-> s1, warned |-> TRUE,
          error |-> [kind |-> "Insufficient total charities",
                     need |-> totalCharities, have |-> Len(national) + s,
                     national |-> Len(national), state |-> s]]
    ELSE [national |-> Len(national), state |-> s1, warned |-> TRUE, error |-> NoError]

ShortageAdjust(national, state, n, s) ==
    LET shortage == n - Len(national)
        maxPossibleStateAdjusted == Min2(maxStateCharities, Len(state))
        canAddToState == Min2(shortage, maxPossibleStateAdjusted - s)
        s1 == s + canAddToState
        n1 == n - canAddToState
        totalAvailable == Len(national) + s1
    IN
    IF ~(n > Len(national))
    THEN [national |-> n, state |-> s, warned |-> FALSE, error |-> NoError]
    ELSE IF ~(n1 > Len(national))
    THEN [national |-> n1, state |-> s1, warned |-> TRUE, error |-> NoError]
    ELSE IF totalAvailable < totalCharities
    THEN [national |-> Len(national), state |-> s1, warned |-> TRUE,
          error |-> [kind |-> "Insufficient total charities",
                     need |-> totalCharities, have |-> totalAvailable,
                     national |-> Len(national), state |-> s1]]
    ELSE [national |-> Len(national), state |-> s1, warned |-> TRUE, error |-> NoError]

AdjustForShortage ==
    /\ pc = "shortage"
    /\ LET plan == ShortageAdjust(nationalCharities, stateCharities,
                                  selectedNationalCount, selectedStateCount) IN
          /\ warnings' = IF plan.warned
                         THEN warnings \cup {"Insufficient national charities"}
                         ELSE warnings
          /\ IF plan.error # NoError
             THEN /\ Fail(plan.error)
             ELSE /\ selectedNationalCount' = plan.national
                  /\ selectedStateCount' = plan.state
                  /\ pc' = "tailor"
                  /\ UNCHANGED <<validCharities, nationalCharities, stateCharities,
                                 tailoringResult, finalSelection, result, error>>
    /\ UNCHANGED <<charities, userProfile, randomDrawn, prevResult>>

(***************************************************************************)
(* createTailoringRules: the rule list.  A rule is its three operations:   *)
(* the profile attribute applies() reads, the count getMinCount() returns  *)
(* and the category getCategory() returns.                                 *)
(***************************************************************************)
createTailoringRules ==
    << [applies |-> "hasPets", minCount |-> minAnimalCharitiesIfPets,
        category |-> "ANIMAL_RELATED"] >>

RuleApplies(rule, profile) ==
    IF rule.applies = "hasPets" THEN profile.hasPets ELSE FALSE

(***************************************************************************)
(* applyTailoringRules, lines 82-98: the pairs <<fromState, fromNational>> *)
(* the distribution loop can end with when `left` iterations remain.       *)
(***************************************************************************)
\* Distribute that always prefers the state side when both sides can supply
Distribute_StateFirst(left, fromState, fromNational, maxFromState, maxFromNational) ==
    LET moreState == Min2(left, IF fromState < maxFromState
                                THEN maxFromState - fromState ELSE 0)
        moreNational == Min2(left - moreState,
                             IF fromNational < maxFromNational
                             THEN maxFromNational - fromNational ELSE 0)
    IN {<<fromState + moreState, fromNational + moreNational>>}

RECURSIVE Distribute(_, _, _, _, _)
Distribute(left, fromState, fromNational, maxFromState, maxFromNational) ==
    LET canPickState == fromState < maxFromState
        canPickNational == fromNational < maxFromNational
    IN
    IF left = 0 THEN {<<fromState, fromNational>>}
    ELSE IF canPickState /\ canPickNational
    THEN Distribute(left - 1, fromState + 1, fromNational, maxFromState, maxFromNational)
         \cup Distribute(left - 1, fromState, fromNational + 1, maxFromState, maxFromNational)
    ELSE IF canPickState
    THEN Distribute(left - 1, fromState + 1, fromNational, maxFromState, maxFromNational)
    ELSE IF canPickNational
    THEN Distribute(left - 1, fromState, fromNational + 1, maxFromState, maxFromNational)
    ELSE Distribute(left - 1, fromState, fromNational, maxFromState, maxFromNational)

(***************************************************************************)
(* applyTailoringRules, lines 53-108: the body of the loop for one rule.   *)
(* acc holds selectedNational, selectedState, remainingNational,           *)
(* remainingState and the warnings written so far; the value is the set of *)
(* values acc can have after the rule.                                     *)
(***************************************************************************)
\* ApplyRule that deducts the rule's whole minimum from the capacities, also
\* when fewer rows were claimed
ApplyRule_Deduct(rule, profile, national, state, acc) ==
    LET category == rule.category
        minCount == rule.minCount
        availableNational ==
            FilterNotSelected(FilterCategory(national, category), acc.national)
        availableState ==
            FilterNotSelected(FilterCategory(state, category), acc.state)
        totalAvailable == Len(availableNational) + Len(availableState)
        actualMinCount ==
            Min3(minCount, totalAvailable, acc.remainingNational + acc.remainingState)
        maxFromState == Min2(acc.remainingState, Len(availableState))
        maxFromNational == Min2(acc.remainingNational, Len(availableNational))
    IN
    IF ~RuleApplies(rule, profile) THEN {acc}
    ELSE IF actualMinCount <= 0 THEN {acc}
    ELSE UNION { { [national |-> acc.national \o newNationalCharities,
                    state |-> acc.state \o newStateCharities,
                    remainingNational |-> acc.remainingNational - (minCount - d[1]),
                    remainingState |-> acc.remainingState - d[1],
                    warned |-> acc.warned] :
                      newStateCharities \in selectRandomItems(availableState, d[1]),
                      newNationalCharities \in selectRandomItems(availableNational, d[2]) } :
                 d \in Distribute(actualMinCount, 0, 0, maxFromState, maxFromNational) }

\* ApplyRule that also warns when exactly the minimum is available
ApplyRule_WarnAtMinimum(rule, profile, national, state, acc) ==
    LET category == rule.category
        minCount == rule.minCount
        availableNational ==
            FilterNotSelected(FilterCategory(national, category), acc.national)
        availableState ==
            FilterNotSelected(FilterCategory(state, category), acc.state)
        totalAvailable == Len(availableNational) + Len(availableState)
        warned == IF totalAvailable <= minCount
                  THEN acc.warned \cup {<<"Only available", category, totalAvailable, minCount>>}
                  ELSE acc.warned
        actualMinCount ==
            Min3(minCount, totalAvailable, acc.remainingNational + acc.remainingState)
        maxFromState == Min2(acc.remainingState, Len(availableState))
        maxFromNational == Min2(acc.remainingNational, Len(availableNational))
    IN
    IF ~RuleApplies(rule, profile) THEN {acc}
    ELSE IF actualMinCount <= 0 THEN {[acc EXCEPT !.warned = warned]}
    ELSE UNION { { [national |-> acc.national \o newNationalCharities,
                    state |-> acc.state \o newStateCharities,
                    remainingNational |-> acc.remainingNational - d[2],
                    remainingState |-> acc.remainingState - d[1],
                    warned |-> warned] :
                      newStateCharities \in selectRandomItems(availableState, d[1]),
                      newNationalCharities \in selectRandomItems(availableNational, d[2]) } :
                 d \in Distribute(actualMinCount, 0, 0, maxFromState, maxFromNational) }

ApplyRule(rule, profile, national, state, acc) ==
    LET category == rule.category
        minCount == rule.minCount
        availableNational ==
            FilterNotSelected(FilterCategory(national, category), acc.national)
        availableState ==
            FilterNotSelected(FilterCategory(state, category), acc.state)
        totalAvailable == Len(availableNational) + Len(availableState)
        warned == IF totalAvailable < minCount
                  THEN acc.warned \cup {<<"Only available", category, totalAvailable, minCount>>}
                  ELSE acc.warned
        actualMinCount ==
            Min3(minCount, totalAvailable, acc.remainingNational + acc.remainingState)
        maxFromState == Min2(acc.remainingState, Len(availableState))
        maxFromNational == Min2(acc.remainingNational, Len(availableNational))
    IN
    IF ~RuleApplies(rule, profile) THEN {acc}
    ELSE IF actualMinCount <= 0 THEN {[acc EXCEPT !.warned = warned]}
    ELSE UNION { { [national |-> acc.national \o newNationalCharities,
                    state |-> acc.state \o newStateCharities,
                    remainingNational |-> acc.remainingNational - d[2],
                    remainingState |-> acc.remainingState - d[1],
                    warned |-> warned] :
                      newStateCharities \in selectRandomItems(availableState, d[1]),
                      newNationalCharities \in selectRandomItems(availableNational, d[2]) } :
                 d \in Distribute(actualMinCount, 0, 0, maxFromState, maxFromNational) }

RECURSIVE ApplyRulesFrom(_, _, _, _, _)
ApplyRulesFrom(rules, profile, national, state, acc) ==
    IF rules = <<>> THEN {acc}
    ELSE UNION { ApplyRulesFrom(Tail(rules), profile, national, state, a) :
                   a \in ApplyRule(Head(rules), profile, national, state, acc) }

(***************************************************************************)
(* applyTailoringRules: the values it can return (with the warnings it     *)
(* wrote).                                                                 *)
(***************************************************************************)
applyTailoringRules(profile, national, state, selectedNational, selectedState) ==
    ApplyRulesFrom(createTailoringRules, profile, national, state,
                   [national |-> <<>>, state |-> <<>>,
                    remainingNational |-> selectedNational,
                    remainingState |-> selectedState,
                    warned |-> {}])

(***************************************************************************)
(* selectCharities, lines 213-220.                                         *)
(***************************************************************************)
ApplyTailoring ==
    /\ pc = "tailor"
    /\ \E r \in applyTailoringRules(userProfile, nationalCharities, stateCharities,
                                    selectedNationalCount, selectedStateCount) :
          /\ tailoringResult' = [national |-> r.national, state |-> r.state,
                                 remainingNational |-> r.remainingNational,
                                 remainingState |-> r.remainingState]
          /\ warnings' = warnings \cup r.warned
    /\ pc' = "fill"
    /\ UNCHANGED <<charities, userProfile, validCharities, nationalCharities,
                   stateCharities, selectedStateCount, selectedNationalCount,
                   finalSelection, result, error, randomDrawn, prevResult>>

(***************************************************************************)
(* selectCharities, lines 222-239: fill the remaining slots and combine.   *)
(***************************************************************************)
\* FillRemaining that takes the sampled rows out of the pools
FillRemaining_Splice ==
    /\ pc = "fill"
    /\ LET remainingNationalCharities ==
               FilterNotSelected(nationalCharities, tailoringResult.national)
           remainingStateCharities ==
               FilterNotSelected(stateCharities, tailoringResult.state)
       IN \E additionalNational \in selectRandomItems(remainingNationalCharities,
                                                      tailoringResult.remainingNational),
             additionalState \in selectRandomItems(remainingStateCharities,
                                                   tailoringResult.remainingState) :
             /\ finalSelection' = tailoringResult.national \o tailoringResult.state
                                  \o additionalNational \o additionalState
             /\ nationalCharities' = FilterNotSelected(nationalCharities, additionalNational)
             /\ stateCharities' = FilterNotSelected(stateCharities, additionalState)
    /\ pc' = "validate"
    /\ UNCHANGED <<charities, userProfile, validCharities, selectedStateCount,
                   selectedNationalCount, tailoringResult, result, error, warnings,
                   randomDrawn, prevResult>>

FillRemaining ==
    /\ pc = "fill"
    /\ LET remainingNationalCharities ==
               FilterNotSelected(nationalCharities, tailoringResult.national)
           remainingStateCharities ==
               FilterNotSelected(stateCharities, tailoringResult.state)
       IN \E additionalNational \in selectRandomItems(remainingNationalCharities,
                                                      tailoringResult.remainingNational),
             additionalState \in selectRandomItems(remainingStateCharities,
                                                   tailoringResult.remainingState) :
             finalSelection' = tailoringResult.national \o tailoringResult.state
                               \o additionalNational \o additionalState
    /\ pc' = "validate"
    /\ UNCHANGED <<charities, userProfile, validCharities, nationalCharities,
                   stateCharities, selectedStateCount, selectedNationalCount,
                   tailoringResult, result, error, warnings, randomDrawn, prevResult>>

(***************************************************************************)
(* selectCharities, lines 241-253: final validation, shuffle, return.      *)
(***************************************************************************)
ValidateAndReturn ==
    /\ pc = "validate"
    /\ LET expectedCount ==
               Min2(totalCharities, Len(nationalCharities) + Len(stateCharities))
       IN IF Len(finalSelection) # expectedCount
          THEN Fail([kind |-> "Selection count mismatch", need |-> expectedCount,
                     have |-> Len(finalSelection), national |-> 0, state |-> 0])
          ELSE /\ result' \in shuffle(finalSelection)
               /\ pc' = "done"
               /\ validCharities' = <<>>
               /\ nationalCharities' = <<>>
               /\ stateCharities' = <<>>
               /\ selectedStateCount' = 0
               /\ selectedNationalCount' = 0
               /\ tailoringResult' = NoTailoring
               /\ finalSelection' = <<>>
               /\ error' = error
    /\ UNCHANGED <<charities, userProfile, warnings, randomDrawn, prevResult>>

Next ==
    \/ LoadAndValidate
    \/ Partition
    \/ DrawStateCount
    \/ AdjustForPets
    \/ AdjustForShortage
    \/ ApplyTailoring
    \/ FillRemaining
    \/ ValidateAndReturn

Spec == Init /\ [][Next]_vars

(***************************************************************************)
(* A caller that calls selectCharities again with the same two files, as   *)
(* the randomness tests do; it keeps the result of the call before.        *)
(***************************************************************************)
CallAgain ==
    /\ pc \in {"done", "failed"}
    /\ prevResult' = result
    /\ pc' = "start"
    /\ result' = <<>>
    /\ error' = NoError
    /\ warnings' = {}
    /\ randomDrawn' = FALSE
    /\ UNCHANGED <<charities, userProfile, validCharities, nationalCharities,
                   stateCharities, selectedStateCount, selectedNationalCount,
                   tailoringResult, finalSelection>>

\* inputs with surplus supply: 13 national rows and one matching state row
RepeatCharities ==
    {MakeCharities(a, totalCharities + 1 - a, b, 1 - b, "plain") :
        a \in {0, 3}, b \in {0, 1}}

InitRepeat == InitWith(RepeatCharities)

NextRepeat ==
    \/ Next
    \/ CallAgain

SpecRepeat == InitRepeat /\ [][NextRepeat]_vars

(***************************************************************************)
(* Vocabulary of the properties, read off the input and the result.        *)
(***************************************************************************)
RowNumbers == 1..Len(charities)

IsNational(i) == charities[i].featured = "NATIONAL"
IsMatchingState(i) ==
    charities[i].featured = "STATE" /\ charities[i].state = userProfile.state
IsAnimal(i) == charities[i].category = "ANIMAL_RELATED"

EligibleNational == {i \in RowNumbers : validateCharity(charities[i]) /\ IsNational(i)}
EligibleState == {i \in RowNumbers : validateCharity(charities[i]) /\ IsMatchingState(i)}
Eligible == EligibleNational \cup EligibleState
EligibleAnimals == {i \in Eligible : IsAnimal(i)}

\* the ids of the rows are pairwise distinct: as many ids as rows
DistinctIds ==
    Cardinality({charities[i].id : i \in RowNumbers}) = Len(charities)

Returned == pc = "done"
Rejected == pc = "failed"
Terminated == Returned \/ Rejected

CountIn(seq, P(_)) == Cardinality({k \in 1..Len(seq) : P(seq[k])})
StateCountOf(seq) == CountIn(seq, LAMBDA i : charities[i].featured = "STATE")
NationalCountOf(seq) == CountIn(seq, LAMBDA i : charities[i].featured = "NATIONAL")
AnimalCountOf(seq) == CountIn(seq, IsAnimal)
IdsOf(seq) == {charities[seq[k]].id : k \in 1..Len(seq)}

SupplyErrors == {"Insufficient charities", "Insufficient total charities"}

\* the supply the planner can use: all national rows and at most 5 state rows
UsableSupply ==
    Cardinality(EligibleNational) + Min2(maxStateCharities, Cardinality(EligibleState))

(***************************************************************************)
(* The plan a call ends with when its initial draw is r, computed as the   *)
(* planner computes it, and the pools as the partition computes them.      *)
(***************************************************************************)
NationalPool == FilterNational(FilterValid(AllRows))
StatePool == FilterState(FilterValid(AllRows), userProfile)

PlanFor(profile, national, state, r) ==
    LET adjusted == PetAdjust(profile, national, state, totalCharities - r, r)
    IN ShortageAdjust(national, state, adjusted.national, adjusted.state)

InitialDraws(state) == getRandomInt(0, maxPossibleState(state))

(***************************************************************************)
(* C1: every successful return of selectCharities holds exactly            *)
(* totalCharities = 12 charities, whatever the random choices were.        *)
(***************************************************************************)
C1_ReturnsExactlyTwelve ==
    Returned => Len(result) = totalCharities

C1_Witness ==
    /\ Returned
    /\ Len(result) = 12
    /\ StateCountOf(result) > 0
    /\ NationalCountOf(result) > 0

(***************************************************************************)
(* C2: when the ids of the input rows are pairwise distinct, the ids in a  *)
(* returned result are pairwise distinct.                                  *)
(***************************************************************************)
C2_ResultIdsDistinct ==
    (Returned /\ DistinctIds) => Cardinality(IdsOf(result)) = Len(result)

C2_Witness ==
    /\ Returned
    /\ DistinctIds
    /\ userProfile.hasPets
    /\ AnimalCountOf(result) >= minAnimalCharitiesIfPets
    /\ AnimalCountOf(result) < Len(result)
    /\ Cardinality(IdsOf(result)) = 12

(***************************************************************************)
(* C3: every charity of a result is a row of the input that is featured    *)
(* NATIONAL, or featured STATE with the user's state; a row with an empty  *)
(* featured value or a STATE row of another state is never selected.       *)
(***************************************************************************)
C3_OnlyEligibleSelected ==
    Returned =>
        \A k \in 1..Len(result) :
            /\ result[k] \in RowNumbers
            /\ IsNational(result[k]) \/ IsMatchingState(result[k])

C3_Witness ==
    /\ Returned
    /\ \E i \in RowNumbers : validateCharity(charities[i]) /\ charities[i].featured = ""
    /\ \E i \in RowNumbers : /\ validateCharity(charities[i])
                             /\ charities[i].featured = "STATE"
                             /\ charities[i].state # userProfile.state
    /\ StateCountOf(result) > 0

(***************************************************************************)
(* C4: a result never holds more than maxStateCharities = 5 STATE-featured *)
(* charities.                                                              *)
(***************************************************************************)
C4_StateCountAtMostFive ==
    Returned => StateCountOf(result) <= maxStateCharities

C4_Witness ==
    /\ Returned
    /\ Cardinality(EligibleState) > maxStateCharities
    /\ userProfile.hasPets
    /\ Cardinality(EligibleAnimals) >= minAnimalCharitiesIfPets
    /\ StateCountOf(result) = maxStateCharities

(***************************************************************************)
(* C5: if the user has pets and at least 4 eligible charities are          *)
(* ANIMAL_RELATED, every result holds at least 4 ANIMAL_RELATED charities; *)
(* when exactly 4 are eligible, all 4 are in the result.                   *)
(***************************************************************************)
C5_AnimalMinimumMet ==
    (Returned /\ userProfile.hasPets
        /\ Cardinality(EligibleAnimals) >= minAnimalCharitiesIfPets) =>
        /\ AnimalCountOf(result) >= minAnimalCharitiesIfPets
        /\ Cardinality(EligibleAnimals) = minAnimalCharitiesIfPets
              => EligibleAnimals \subseteq Range(result)

C5_Witness ==
    /\ Returned
    /\ userProfile.hasPets
    /\ Cardinality(EligibleAnimals) = 4
    /\ Cardinality(EligibleAnimals \cap EligibleState) = 2
    /\ StateCountOf(result) = 2
    /\ EligibleAnimals \subseteq Range(result)

(***************************************************************************)
(* C6: when fewer than 12 rows are eligible, the call rejects with a       *)
(* supply error that names the required count (12) and the count that is   *)
(* available (the valid rows at the first check, the national rows plus    *)
(* the usable state rows at the second), and returns no result.            *)
(***************************************************************************)
C6_ShortSupplyRejected ==
    (Terminated /\ Cardinality(Eligible) < totalCharities) =>
        /\ Rejected
        /\ result = <<>>
        /\ error.kind \in SupplyErrors
        /\ error.need = totalCharities
        /\ error.have < totalCharities
        /\ error.kind = "Insufficient charities" =>
              error.have = Cardinality({i \in RowNumbers : validateCharity(charities[i])})
        /\ error.kind = "Insufficient total charities" => error.have = UsableSupply

C6_Witness ==
    /\ Rejected
    /\ Cardinality(Eligible) < totalCharities
    /\ Cardinality({i \in RowNumbers : validateCharity(charities[i])}) >= totalCharities
    /\ error.kind = "Insufficient total charities"
    /\ error.have = 11

(***************************************************************************)
(* C7: with pairwise distinct ids, the call rejects if and only if         *)
(* |national pool| + min(5, |matching state pool|) < 12; an input whose 12 *)
(* or more eligible rows are all state-featured is rejected with           *)
(* "Insufficient total charities".                                         *)
(***************************************************************************)
C7_RejectsIffUsableSupplyShort ==
    (Terminated /\ DistinctIds) =>
        /\ Rejected <=> UsableSupply < totalCharities
        /\ (EligibleNational = {} /\ Cardinality(EligibleState) >= totalCharities)
              => error.kind = "Insufficient total charities"

C7_Witness ==
    /\ Rejected
    /\ DistinctIds
    /\ EligibleNational = {}
    /\ Cardinality(EligibleState) >= totalCharities
    /\ error.kind = "Insufficient total charities"
    /\ error.have = maxStateCharities

(***************************************************************************)
(* C8 (as stated): a supply error is raised only when fewer than 12 rows   *)
(* are eligible; every valid input with at least 12 eligible rows succeeds *)
(* and returns 12 items.                                                   *)
(***************************************************************************)
C8_Original ==
    /\ error.kind \in SupplyErrors => Cardinality(Eligible) < totalCharities
    /\ (Terminated /\ DistinctIds /\ Cardinality(Eligible) >= totalCharities) =>
          (Returned /\ Len(result) = totalCharities)

(***************************************************************************)
(* C8 (amended): a supply error is raised only when the national rows plus *)
(* at most 5 of the matching state rows are fewer than 12; every valid     *)
(* input for which they number at least 12 succeeds and returns 12 items.  *)
(***************************************************************************)
C8_SupplyErrorOnlyWhenUnusable ==
    /\ error.kind \in SupplyErrors => UsableSupply < totalCharities
    /\ (Terminated /\ DistinctIds /\ UsableSupply >= totalCharities) =>
          (Returned /\ Len(result) = totalCharities)

C8_Witness ==
    /\ Returned
    /\ DistinctIds
    /\ UsableSupply = totalCharities
    /\ Cardinality(EligibleState) > maxStateCharities
    /\ Len(result) = totalCharities

(***************************************************************************)
(* C9: an under-met tailoring minimum never makes the call fail: on the    *)
(* same charities (with distinct ids) a call succeeds, for a pet owner and *)
(* for a user without pets alike, exactly when the plan of a user without  *)
(* pets succeeds, whatever the initial draw; a successful result has 12    *)
(* items also when fewer than 4 animal charities are eligible.             *)
(***************************************************************************)
NoPetsProfile == [userProfile EXCEPT !.hasPets = FALSE]

C9_UnderMetMinimumNeverFails ==
    (Terminated /\ DistinctIds) =>
        LET national == NationalPool
            state == StatePool
            ok == {r \in InitialDraws(state) :
                      PlanFor(NoPetsProfile, national, state, r).error = NoError}
        IN /\ Returned <=> ok # {}
           /\ Returned <=> ok = InitialDraws(state)
           /\ Returned => Len(result) = totalCharities
           /\ error.kind # "Selection count mismatch"

C9_Witness ==
    /\ Returned
    /\ DistinctIds
    /\ userProfile.hasPets
    /\ Cardinality(EligibleAnimals) \in 1..3
    /\ AnimalCountOf(result) = Cardinality(EligibleAnimals)
    /\ \E w \in warnings : w[1] = "Only available"
    /\ Len(result) = totalCharities

(***************************************************************************)
(* C10.  Surplus supply: more than 12 national rows and at least one       *)
(* matching state row.  PlannedStateCounts: the state counts a call on the *)
(* input can plan, over all initial draws.                                 *)
(***************************************************************************)
Surplus ==
    /\ Cardinality(EligibleNational) > totalCharities
    /\ Cardinality(EligibleState) >= 1

PlannedStateCounts ==
    LET national == NationalPool
        state == StatePool
    IN {PlanFor(userProfile, national, state, r).state :
          r \in {q \in InitialDraws(state) :
                   PlanFor(userProfile, national, state, q).error = NoError}}

\* the animal minimum needs every state slot there is
StateCountForced ==
    /\ userProfile.hasPets
    /\ Cardinality(EligibleAnimals) >= minAnimalCharitiesIfPets
    /\ Cardinality(EligibleAnimals \cap EligibleNational) < minAnimalCharitiesIfPets
    /\ Min2(maxStateCharities, Cardinality(EligibleState))
          = minAnimalCharitiesIfPets - Cardinality(EligibleAnimals \cap EligibleNational)

PetsProfile == [userProfile EXCEPT !.hasPets = TRUE]

StateCountsFor(profile) ==
    LET national == NationalPool
        state == StatePool
    IN {PlanFor(profile, national, state, r).state :
          r \in {q \in InitialDraws(state) :
                   PlanFor(profile, national, state, q).error = NoError}}

(***************************************************************************)
(* C11 (as stated): the pet rule does not change which state counts can    *)
(* occur: on the same charities, the state count of every result is one    *)
(* that can occur for a user with pets and one that can occur for a user   *)
(* without pets, and the two sets of state counts are equal.               *)
(***************************************************************************)
C11_Original ==
    (Returned /\ DistinctIds) =>
        /\ StateCountOf(result) \in StateCountsFor(PetsProfile)
        /\ StateCountOf(result) \in StateCountsFor(NoPetsProfile)
        /\ StateCountsFor(PetsProfile) = StateCountsFor(NoPetsProfile)

(***************************************************************************)
(* C12.  The quantities of the animal rule for the plan in                 *)
(* selectedNationalCount and selectedStateCount (applyTailoringRules,      *)
(* lines 59-76).                                                           *)
(***************************************************************************)
AnimalMaxFromState ==
    Min2(selectedStateCount, Len(FilterCategory(stateCharities, "ANIMAL_RELATED")))
AnimalMaxFromNational ==
    Min2(selectedNationalCount, Len(FilterCategory(nationalCharities, "ANIMAL_RELATED")))
AnimalActualMinCount ==
    Min3(minAnimalCharitiesIfPets,
         Len(FilterCategory(nationalCharities, "ANIMAL_RELATED"))
            + Len(FilterCategory(stateCharities, "ANIMAL_RELATED")),
         selectedNationalCount + selectedStateCount)

(***************************************************************************)
(* C12: for a user with pets, when both pools hold animal charities and    *)
(* both have planned capacity, the rule can select animal charities from   *)
(* both pools at once, can take as many as possible from the state pool    *)
(* and can take as many as possible from the national pool; what the rule  *)
(* selected never exceeds a side's capacity or matching rows, and the      *)
(* units one side cannot supply are taken from the other side as far as    *)
(* that side can supply them.                                              *)
(***************************************************************************)
C12_EitherPoolContributes ==
    /\ (pc = "tailor" /\ userProfile.hasPets
          /\ AnimalMaxFromState >= 1 /\ AnimalMaxFromNational >= 1) =>
          LET outcomes == applyTailoringRules(userProfile, nationalCharities,
                              stateCharities, selectedNationalCount, selectedStateCount)
          IN /\ \E r \in outcomes : r.national # <<>> /\ r.state # <<>>
             /\ \E r \in outcomes :
                   Len(r.state) = Min2(AnimalActualMinCount, AnimalMaxFromState)
             /\ \E r \in outcomes :
                   Len(r.national) = Min2(AnimalActualMinCount, AnimalMaxFromNational)
    /\ (pc = "fill" /\ userProfile.hasPets) =>
          /\ Len(tailoringResult.state) <= AnimalMaxFromState
          /\ Len(tailoringResult.national) <= AnimalMaxFromNational
          /\ Len(tailoringResult.state) + Len(tailoringResult.national)
                = Min2(AnimalActualMinCount, AnimalMaxFromState + AnimalMaxFromNational)
          /\ \A k \in 1..Len(tailoringResult.state) :
                IsAnimal(tailoringResult.state[k]) /\ IsMatchingState(tailoringResult.state[k])
          /\ \A k \in 1..Len(tailoringResult.national) :
                IsAnimal(tailoringResult.national[k]) /\ IsNational(tailoringResult.national[k])

\* the rule took animal charities from both pools, and the result holds a
\* national and a state animal charity
C12_Witness ==
    /\ pc = "fill"
    /\ userProfile.hasPets
    /\ Len(tailoringResult.state) = 2
    /\ Len(tailoringResult.national) = 2
    /\ AnimalMaxFromState = 3
    /\ AnimalMaxFromNational = 3

(***************************************************************************)
(* C13: when no valid STATE row matches the user's state and at least 12   *)
(* national rows are eligible, every result holds no STATE-featured        *)
(* charity and exactly 12 NATIONAL-featured charities.                     *)
(***************************************************************************)
C13_NoStateMatchAllNational ==
    (Returned /\ EligibleState = {}
        /\ Cardinality(EligibleNational) >= totalCharities) =>
        /\ StateCountOf(result) = 0
        /\ NationalCountOf(result) = totalCharities
        /\ Len(result) = totalCharities

C13_Witness ==
    /\ Returned
    /\ EligibleState = {}
    /\ Cardinality(EligibleNational) > totalCharities
    /\ \E i \in RowNumbers : /\ validateCharity(charities[i])
                             /\ charities[i].featured = "STATE"
                             /\ charities[i].state # userProfile.state
    /\ userProfile.hasPets
    /\ StateCountOf(result) = 0
    /\ NationalCountOf(result) = 12

(***************************************************************************)
(* C14: when exactly 12 rows are eligible and at most 5 of them are        *)
(* matching state rows, the plan ends, whatever the initial draw, with     *)
(* every national and every state row planned; with distinct ids the call  *)
(* succeeds, and every result holds all 12 eligible rows.                  *)
(***************************************************************************)
C14_ExactSupplyUsesAll ==
    (Cardinality(Eligible) = totalCharities
        /\ Cardinality(EligibleState) <= maxStateCharities) =>
        /\ pc = "tailor" =>
              /\ selectedStateCount = Cardinality(EligibleState)
              /\ selectedNationalCount = Cardinality(EligibleNational)
        /\ (Terminated /\ DistinctIds) => Returned
        /\ Returned =>
              /\ Eligible \subseteq Range(result)
              /\ Len(result) = totalCharities

C14_Witness ==
    /\ Returned
    /\ Cardinality(EligibleNational) = 8
    /\ Cardinality(EligibleState) = 4
    /\ userProfile.hasPets
    /\ "Insufficient national charities" \in warnings
    /\ Eligible \subseteq Range(result)
    /\ Len(result) = 12

(***************************************************************************)
(* C15.  The numbers of ANIMAL_RELATED charities a call on the input can   *)
(* return: over all initial draws, all outcomes of applyTailoringRules for *)
(* the plan (lines 213-220) and all draws that fill the remaining slots    *)
(* (lines 222-239).                                                        *)
(***************************************************************************)
AnimalCountsOfPlan(profile, national, state, n, s) ==
    UNION { LET remainingNationalCharities == FilterNotSelected(national, t.national)
                remainingStateCharities == FilterNotSelected(state, t.state)
            IN { AnimalCountOf(t.national \o t.state) + a + b :
                   a \in {AnimalCountOf(additionalNational) :
                            additionalNational \in
                                selectRandomItems(remainingNationalCharities,
                                                  t.remainingNational)},
                   b \in {AnimalCountOf(additionalState) :
                            additionalState \in
                                selectRandomItems(remainingStateCharities,
                                                  t.remainingState)} } :
            t \in applyTailoringRules(profile, national, state, n, s) }

PossibleAnimalCounts ==
    LET national == NationalPool
        state == StatePool
    IN UNION { LET plan == PlanFor(userProfile, national, state, r)
               IN IF plan.error # NoError THEN {}
                  ELSE AnimalCountsOfPlan(userProfile, national, state,
                                          plan.national, plan.state) :
               r \in InitialDraws(state) }

\* the non-animal rows can fill the slots the animal minimum leaves, in some
\* plan the call can make: the plan needs no more than 4 animal charities
EnoughNonAnimals ==
    LET national == NationalPool
        state == StatePool
        otherNational == Len(national) - Len(FilterCategory(national, "ANIMAL_RELATED"))
        otherState == Len(state) - Len(FilterCategory(state, "ANIMAL_RELATED"))
        Over(count, others) == IF count > others THEN count - others ELSE 0
    IN \E r \in InitialDraws(state) :
          LET plan == PlanFor(userProfile, national, state, r)
          IN /\ plan.error = NoError
             /\ Over(plan.national, otherNational) + Over(plan.state, otherState)
                   <= minAnimalCharitiesIfPets

(***************************************************************************)
(* C15: for a user with pets, when more than 4 animal charities are        *)
(* eligible (distinct ids, usable supply of at least 12), a call can       *)
(* return more than 4 animal charities, and it can return exactly 4 animal *)
(* charities when (and only when) the non-animal charities are enough to   *)
(* fill the other slots of some plan.  The numbers a call can return are   *)
(* computed over all its random choices (PossibleAnimalCounts).            *)
(***************************************************************************)
C15_AnimalCountVaries ==
    (pc = "start" /\ userProfile.hasPets
        /\ Cardinality(EligibleAnimals) > minAnimalCharitiesIfPets
        /\ DistinctIds /\ UsableSupply >= totalCharities) =>
        /\ \E k \in PossibleAnimalCounts : k > minAnimalCharitiesIfPets
        /\ EnoughNonAnimals <=> minAnimalCharitiesIfPets \in PossibleAnimalCounts

C15_Witness ==
    /\ Returned
    /\ userProfile.hasPets
    /\ DistinctIds
    /\ Cardinality(EligibleAnimals) = 5
    /\ AnimalCountOf(result) = 5
    /\ EnoughNonAnimals
    /\ minAnimalCharitiesIfPets \in PossibleAnimalCounts

(***************************************************************************)
(* C16.  lodash's shuffle, called at line 248, as the Fisher-Yates walk    *)
(* the specification names: for index = 1 .. Len(array), the item at index *)
(* is swapped with the item at a random place in index .. Len(array).  The *)
(* value is the set of arrays the walk can end with.                       *)
(***************************************************************************)
Swap(array, i, j) == [array EXCEPT ![i] = array[j], ![j] = array[i]]

RECURSIVE shuffleSelf(_, _)
shuffleSelf(array, index) ==
    IF index > Len(array) THEN {array}
    ELSE UNION { shuffleSelf(Swap(array, index, rand), index + 1) :
                   rand \in getRandomInt(index, Len(array)) }

lodashShuffle(array) == shuffleSelf(array, 1)

\* the length of the lists lodashShuffle is evaluated on
ShuffleLen == 3

\* a and b hold the same items, each as often in a as in b
IsPermutation(a, b) ==
    /\ Len(a) = Len(b)
    /\ \A x \in Range(a) \cup Range(b) :
          Cardinality({k \in 1..Len(a) : a[k] = x})
             = Cardinality({k \in 1..Len(b) : b[k] = x})

\* every ordering of the items of s: each item first, before every ordering
\* of the others
RECURSIVE Orderings(_)
Orderings(s) ==
    IF s = <<>> THEN {<<>>}
    ELSE UNION { {<<s[i]>> \o o :
                    o \in Orderings(SubSeq(s, 1, i - 1) \o SubSeq(s, i + 1, Len(s)))} :
                 i \in 1..Len(s) }

FrameCharities ==
    {MakeCharities(3, totalCharities - 3, 1, 0, "plain"),
     MakeCharities(3, totalCharities - 3, 1, 0, "extras"),
     MakeCharities(0, 6, 0, 6, "plain"),
     MakeCharities(0, 6, 0, 5, "plain")}

InitFrame == InitWith(FrameCharities)

SpecFrame == InitFrame /\ [][NextRepeat]_vars

\* the locals of a call hold nothing of an earlier call
FreshCall ==
    /\ validCharities = <<>>
    /\ nationalCharities = <<>>
    /\ stateCharities = <<>>
    /\ selectedStateCount = 0
    /\ selectedNationalCount = 0
    /\ tailoringResult = NoTailoring
    /\ finalSelection = <<>>
    /\ result = <<>>
    /\ error = NoError
    /\ warnings = {}
    /\ randomDrawn = FALSE

(***************************************************************************)
(* C17: no step of a call changes the charities or the profile; from the   *)
(* partition to the return or the throw the valid list, the national pool  *)
(* and the state pool are the lists computed from the input, also after    *)
(* the rule and the sampling drew from them; and a further call starts     *)
(* with the same input and with locals that hold nothing of the call       *)
(* before, whether that call returned or rejected.                         *)
(***************************************************************************)
C17_CallLeavesInputsAlone ==
    [][ /\ charities' = charities
        /\ userProfile' = userProfile
        /\ pc \in {"partition", "plan", "pets", "shortage", "tailor", "fill", "validate"}
              => validCharities = FilterValid(AllRows)
        /\ pc \in {"plan", "pets", "shortage", "tailor", "fill", "validate"}
              => /\ nationalCharities = NationalPool
                 /\ stateCharities = StatePool
        /\ pc' = "start" => FreshCall' ]_vars

\* a second call, after the first one sampled from the pools, about to
\* return with the pools as they were
C17_Witness ==
    /\ pc = "validate"
    /\ prevResult # <<>>
    /\ userProfile.hasPets
    /\ tailoringResult.national # <<>>
    /\ Len(finalSelection) = totalCharities
    /\ nationalCharities = NationalPool
    /\ stateCharities = StatePool

(***************************************************************************)
(* C18: after the initial draw, after the animal adjustment and after the  *)
(* national-shortage shift the planned state count lies in                 *)
(* 0 .. min(5, |state pool|), the planned national count is not negative   *)
(* and the two sum to 12; the shift itself keeps the state count in that   *)
(* range also when the call then rejects; and once planning has completed  *)
(* without an error the national count is at most |national pool|.         *)
(***************************************************************************)
C18_CapacityPlanInvariant ==
    /\ pc \in {"pets", "shortage", "tailor", "fill", "validate"} =>
          /\ selectedStateCount \in 0..Min2(maxStateCharities, Len(stateCharities))
          /\ selectedNationalCount >= 0
          /\ selectedNationalCount + selectedStateCount = totalCharities
    /\ pc = "shortage" =>
          LET plan == ShortageAdjust(nationalCharities, stateCharities,
                                     selectedNationalCount, selectedStateCount)
          IN /\ plan.state \in 0..Min2(maxStateCharities, Len(stateCharities))
             /\ plan.national >= 0
             /\ plan.error = NoError => plan.national + plan.state = totalCharities
    /\ pc \in {"tailor", "fill", "validate"} =>
          selectedNationalCount <= Len(nationalCharities)

\* planning completed for a pet owner after a shift to all 5 usable state rows
C18_Witness ==
    /\ pc = "tailor"
    /\ userProfile.hasPets
    /\ "Insufficient national charities" \in warnings
    /\ Len(stateCharities) > maxStateCharities
    /\ selectedStateCount = maxStateCharities
    /\ selectedNationalCount = Len(nationalCharities)

(***************************************************************************)
(* C19 (as stated): on every execution that ends in the 'Insufficient      *)
(* total charities' error, no random number was drawn before the error.    *)
(***************************************************************************)
C19_Original ==
    error.kind = "Insufficient total charities" => ~randomDrawn

(***************************************************************************)
(* C19 (amended): a call on fewer than 12 valid rows never draws a random  *)
(* number: it rejects with 'Insufficient charities' at the first check.    *)
(* The 'Insufficient total charities' error is raised by the planner after *)
(* the initial state-count draw, and before any rule selection, sampling   *)
(* or shuffle.                                                             *)
(***************************************************************************)
C19_SupplyErrorBeforeSampling ==
    [][ /\ Len(FilterValid(AllRows)) < totalCharities => ~randomDrawn'
        /\ (pc' = "failed" /\ error'.kind = "Insufficient charities") =>
              /\ pc = "start"
              /\ ~randomDrawn'
        /\ (pc' = "failed" /\ error'.kind = "Insufficient total charities") =>
              /\ pc = "shortage"
              /\ randomDrawn'
              /\ tailoringResult = NoTailoring
              /\ finalSelection = <<>> ]_vars

C19_Witness ==
    /\ Rejected
    /\ error.kind = "Insufficient total charities"
    /\ randomDrawn
    /\ userProfile.hasPets
    /\ Cardinality(Eligible) >= totalCharities

(***************************************************************************)
(* C20.  The supply error the input calls for, read off the input alone:   *)
(* none, the first check's error or the planner's error with its counts.   *)
(***************************************************************************)
ExpectedSupplyError ==
    LET valid == Cardinality({i \in RowNumbers : validateCharity(charities[i])})
        usableState == Min2(maxStateCharities, Cardinality(EligibleState))
    IN IF valid < totalCharities
       THEN [kind |-> "Insufficient charities", need |-> totalCharities,
             have |-> valid, national |-> 0, state |-> 0]
       ELSE IF Cardinality(EligibleNational) + usableState < totalCharities
       THEN [kind |-> "Insufficient total charities", need |-> totalCharities,
             have |-> Cardinality(EligibleNational) + usableState,
             national |-> Cardinality(EligibleNational), state |-> usableState]
       ELSE NoError

(***************************************************************************)
(* C20: whether a call rejects with a supply error, which one, and the     *)
(* counts it reports (need 12, have |national| + min(5, |state pool|)) are *)
(* fixed by the input: they are the same for every initial draw, with and  *)
(* without pets; with distinct ids a call rejects only with that error.    *)
(***************************************************************************)
C20_SupplyErrorsDeterministic ==
    /\ Terminated =>
          /\ error.kind \in SupplyErrors <=> ExpectedSupplyError # NoError
          /\ error.kind \in SupplyErrors => error = ExpectedSupplyError
          /\ DistinctIds => (Rejected <=> ExpectedSupplyError # NoError)
    /\ (pc = "plan") =>
          \A r \in InitialDraws(stateCharities), h \in BOOLEAN :
             PlanFor([userProfile EXCEPT !.hasPets = h], nationalCharities,
                     stateCharities, r).error = ExpectedSupplyError

\* the planner's error for a pet owner whose draw the animal adjustment and
\* the shift could change
C20_Witness ==
    /\ Rejected
    /\ userProfile.hasPets
    /\ Cardinality(EligibleState) > maxStateCharities
    /\ Cardinality(EligibleAnimals) >= minAnimalCharitiesIfPets
    /\ Cardinality(EligibleAnimals \cap EligibleNational) < minAnimalCharitiesIfPets
    /\ error.kind = "Insufficient total charities"
    /\ error.state = maxStateCharities
    /\ error.have = Cardinality(EligibleNational) + maxStateCharities

(***************************************************************************)
(* C21: after applyTailoringRules, for each pool the rule-selected rows    *)
(* plus the remaining capacity returned equal the target passed in; both   *)
(* remaining capacities are non-negative; the rows selected from a pool    *)
(* are distinct rows of that pool with the rule's category, so no more     *)
(* than the pool's matching rows.                                          *)
(***************************************************************************)
C21_TailoringAccounting ==
    pc = "fill" =>
        /\ Len(tailoringResult.national) + tailoringResult.remainingNational
              = selectedNationalCount
        /\ Len(tailoringResult.state) + tailoringResult.remainingState
              = selectedStateCount
        /\ tailoringResult.remainingNational >= 0
        /\ tailoringResult.remainingState >= 0
        /\ Len(tailoringResult.national)
              <= Len(FilterCategory(nationalCharities, "ANIMAL_RELATED"))
        /\ Len(tailoringResult.state)
              <= Len(FilterCategory(stateCharities, "ANIMAL_RELATED"))
        /\ Cardinality(Range(tailoringResult.national)) = Len(tailoringResult.national)
        /\ Cardinality(Range(tailoringResult.state)) = Len(tailoringResult.state)
        /\ Range(tailoringResult.national)
              \subseteq Range(FilterCategory(nationalCharities, "ANIMAL_RELATED"))
        /\ Range(tailoringResult.state)
              \subseteq Range(FilterCategory(stateCharities, "ANIMAL_RELATED"))
        /\ ~userProfile.hasPets =>
              tailoringResult.national = <<>> /\ tailoringResult.state = <<>>

\* the rule claimed fewer rows than its minimum, from both pools
C21_Witness ==
    /\ pc = "fill"
    /\ userProfile.hasPets
    /\ Len(tailoringResult.national) = 2
    /\ Len(tailoringResult.state) = 1
    /\ tailoringResult.remainingNational = selectedNationalCount - 2
    /\ tailoringResult.remainingState = selectedStateCount - 1
    /\ tailoringResult.remainingState >= 1

(***************************************************************************)
(* C22: for a user with pets the rule selects exactly                      *)
(* min(minimum, matching rows of both pools, remaining capacity of both    *)
(* pools) rows, and a result holds at least that many animal charities;    *)
(* in particular with fewer than 4 animal charities eligible, whatever     *)
(* state count was drawn.                                                  *)
(***************************************************************************)
C22_Original ==
    /\ (pc = "fill" /\ userProfile.hasPets /\ DistinctIds) =>
          Len(tailoringResult.national) + Len(tailoringResult.state)
             = AnimalActualMinCount
    /\ (Returned /\ userProfile.hasPets /\ DistinctIds) =>
          AnimalCountOf(result)
             >= Min2(minAnimalCharitiesIfPets, Cardinality(EligibleAnimals))

(***************************************************************************)
(* C23: createTailoringRules declares one rule; the loop of                *)
(* applyTailoringRules is run here over that rule followed by a second     *)
(* rule for the same profile field and category, the only way a row could  *)
(* be selected twice.  The second rule keeps the first rule's rows,        *)
(* selects no row whose id the first rule selected, and the rows of both   *)
(* rules together stay within the planned capacity of each pool.           *)
(***************************************************************************)
SecondRuleMinCount == 2
SecondRule ==
    [applies |-> "hasPets", minCount |-> SecondRuleMinCount,
     category |-> "ANIMAL_RELATED"]

AfterFirstRule ==
    ApplyRule(createTailoringRules[1], userProfile, nationalCharities, stateCharities,
              [national |-> <<>>, state |-> <<>>,
               remainingNational |-> selectedNationalCount,
               remainingState |-> selectedStateCount,
               warned |-> {}])

AfterSecondRule(a) ==
    ApplyRulesFrom(<<SecondRule>>, userProfile, nationalCharities, stateCharities, a)

NewRows(before, after) == SubSeq(after, Len(before) + 1, Len(after))

C23_LaterRuleRespectsEarlier ==
    (pc = "tailor" /\ userProfile.hasPets) =>
        \A a \in AfterFirstRule : \A b \in AfterSecondRule(a) :
            /\ SubSeq(b.national, 1, Len(a.national)) = a.national
            /\ SubSeq(b.state, 1, Len(a.state)) = a.state
            /\ IdsOf(NewRows(a.national, b.national)) \cap IdsOf(a.national) = {}
            /\ IdsOf(NewRows(a.state, b.state)) \cap IdsOf(a.state) = {}
            /\ Len(b.national) + b.remainingNational = selectedNationalCount
            /\ Len(b.state) + b.remainingState = selectedStateCount
            /\ b.remainingNational >= 0
            /\ b.remainingState >= 0

\* the first rule selected its four rows and the second rule can add two
\* more, one from each pool
C23_Witness ==
    /\ pc = "tailor"
    /\ userProfile.hasPets
    /\ \E a \in AfterFirstRule : \E b \in AfterSecondRule(a) :
          /\ Len(a.national) + Len(a.state) = minAnimalCharitiesIfPets
          /\ Len(b.national) = Len(a.national) + 1
          /\ Len(b.state) = Len(a.state) + 1

(***************************************************************************)
(* C24: the fill step adds, for each pool, rows of the pool that the rule  *)
(* did not select, each at most once, and (ids distinct) exactly the       *)
(* pool's remaining target of them; in every call of the fill step the     *)
(* remaining target is within the rows left in the pool.                   *)
(* selectRandomItems returns no item for a count of 0 or less, every item  *)
(* of the list for a count of at least its length, and otherwise count     *)
(* distinct members of the list.                                           *)
(***************************************************************************)
SamplerContract(items, count) ==
    \A r \in selectRandomItems(items, count) :
        /\ Range(r) \subseteq Range(items)
        /\ Cardinality(Range(r)) = Len(r)
        /\ Len(r) = IF count <= 0 THEN 0
                    ELSE IF count >= Len(items) THEN Len(items)
                    ELSE count

C24_SamplerDrawsRemainingTarget ==
    /\ pc = "fill" =>
          LET remainingNationalCharities ==
                  FilterNotSelected(nationalCharities, tailoringResult.national)
              remainingStateCharities ==
                  FilterNotSelected(stateCharities, tailoringResult.state)
          IN /\ DistinctIds =>
                   /\ tailoringResult.remainingNational <= Len(remainingNationalCharities)
                   /\ tailoringResult.remainingState <= Len(remainingStateCharities)
             /\ SamplerContract(remainingNationalCharities, tailoringResult.remainingNational)
             /\ SamplerContract(remainingStateCharities, tailoringResult.remainingState)
             /\ \A count \in {-1, 0, 1, Len(remainingStateCharities),
                              Len(remainingStateCharities) + 1} :
                   SamplerContract(remainingStateCharities, count)
    /\ pc = "validate" =>
          LET rule == tailoringResult.national \o tailoringResult.state
              sampled == SubSeq(finalSelection, Len(rule) + 1, Len(finalSelection))
              additionalNational == SelectSeq(sampled, IsNational)
              additionalState == SelectSeq(sampled, IsMatchingState)
          IN /\ sampled = additionalNational \o additionalState
             /\ Range(additionalNational)
                   \subseteq Range(nationalCharities) \ Range(tailoringResult.national)
             /\ Range(additionalState)
                   \subseteq Range(stateCharities) \ Range(tailoringResult.state)
             /\ IdsOf(additionalNational) \cap IdsOf(tailoringResult.national) = {}
             /\ IdsOf(additionalState) \cap IdsOf(tailoringResult.state) = {}
             /\ Cardinality(Range(sampled)) = Len(sampled)
             /\ DistinctIds =>
                   /\ Len(additionalNational) = tailoringResult.remainingNational
                   /\ Len(additionalState) = tailoringResult.remainingState

\* the rule selected rows from both pools and the fill step drew a proper
\* part of what was left in the state pool
C24_Witness ==
    /\ pc = "validate"
    /\ DistinctIds
    /\ tailoringResult.national # <<>>
    /\ tailoringResult.state # <<>>
    /\ tailoringResult.remainingNational >= 1
    /\ tailoringResult.remainingState >= 1
    /\ tailoringResult.remainingState
          < Len(FilterNotSelected(stateCharities, tailoringResult.state))
    /\ Len(finalSelection) = totalCharities

(***************************************************************************)
(* C25: for a user with pets the rule selects fewer than 4 animal          *)
(* charities exactly when the warning 'Only ... ANIMAL_RELATED charities   *)
(* available, need 4' was written; a user without pets gets no such        *)
(* warning; a call that wrote the warning goes on to the fill step without  *)
(* an error and (ids distinct) is not rejected.                            *)
(***************************************************************************)
ShortfallWarned ==
    \E k \in 0..minAnimalCharitiesIfPets :
        <<"Only available", "ANIMAL_RELATED", k, minAnimalCharitiesIfPets>> \in warnings

C25_WarningIffMinimumUnmet ==
    /\ pc \in {"fill", "validate"} =>
          /\ userProfile.hasPets =>
                ((Len(tailoringResult.national) + Len(tailoringResult.state)
                     < minAnimalCharitiesIfPets) <=> ShortfallWarned)
          /\ ~userProfile.hasPets => ~ShortfallWarned
          /\ error = NoError
    /\ (ShortfallWarned /\ DistinctIds) => ~Rejected

\* a call that wrote the warning, selected three animal charities by the
\* rule and went on to combine twelve rows
C25_Witness ==
    /\ pc = "validate"
    /\ userProfile.hasPets
    /\ ShortfallWarned
    /\ Len(tailoringResult.national) + Len(tailoringResult.state) = 3
    /\ Len(finalSelection) = totalCharities

(***************************************************************************)
(* C26: for inputs with pairwise distinct ids, whatever was drawn, the     *)
(* combined selection that reaches the final validation has                *)
(* min(12, national pool + state pool) = 12 rows, and no call ends with    *)
(* 'Selection count mismatch'.                                             *)
(***************************************************************************)
C26_CountCheckNeverFires ==
    DistinctIds =>
        /\ pc = "validate" =>
              LET expectedCount ==
                      Min2(totalCharities, Len(nationalCharities) + Len(stateCharities))
              IN /\ expectedCount = totalCharities
                 /\ Len(finalSelection) = expectedCount
        /\ error.kind # "Selection count mismatch"

\* final validation of a selection made of rule-selected and sampled rows
\* of both pools, with a state pool that was not used up
C26_Witness ==
    /\ pc = "validate"
    /\ DistinctIds
    /\ userProfile.hasPets
    /\ tailoringResult.national # <<>>
    /\ tailoringResult.state # <<>>
    /\ tailoringResult.remainingState >= 1
    /\ selectedStateCount < Len(stateCharities)
    /\ Len(nationalCharities) + Len(stateCharities) > totalCharities

(***************************************************************************)
(* C27: when two eligible rows share an id, no result holds that id twice; *)
(* such a call ends with an error that is not a supply error.              *)
(***************************************************************************)
EligibleShareId ==
    \E i \in Eligible : \E j \in Eligible :
        i # j /\ charities[i].id = charities[j].id

C27_Original ==
    /\ (Returned /\ EligibleShareId) => Cardinality(IdsOf(result)) = Len(result)
    /\ (Rejected /\ EligibleShareId /\ error.kind \notin SupplyErrors) =>
          error.kind = "Selection count mismatch"

(***************************************************************************)
(* C28: rows with no id, no name, a featured value other than NATIONAL,    *)
(* STATE or empty, or featured STATE with no state, are in no pool and in  *)
(* no result, and are not counted by the first supply check: a call is     *)
(* rejected with 'Insufficient charities' exactly when fewer than 12 rows  *)
(* pass validation, however many rows the file has.                        *)
(***************************************************************************)
FailsValidation(i) ==
    \/ charities[i].id = 0
    \/ charities[i].name = ""
    \/ charities[i].featured \notin {"NATIONAL", "STATE", ""}
    \/ charities[i].featured = "STATE" /\ charities[i].state = ""

PassingRows == {i \in RowNumbers : ~FailsValidation(i)}

C28_InvalidRowsRemoved ==
    /\ pc \notin {"start", "done", "failed"} =>
          /\ Range(validCharities) = PassingRows
          /\ Len(validCharities) >= totalCharities
          /\ \A i \in Range(nationalCharities) \cup Range(stateCharities) :
                ~FailsValidation(i)
    /\ Returned => \A k \in 1..Len(result) : ~FailsValidation(result[k])
    /\ Terminated =>
          /\ (Rejected /\ error.kind = "Insufficient charities")
                <=> Cardinality(PassingRows) < totalCharities
          /\ error.kind = "Insufficient charities" =>
                error.have = Cardinality(PassingRows)

\* a file of 12 or more rows, 11 of them valid, was rejected
C28_Witness ==
    /\ Rejected
    /\ error.kind = "Insufficient charities"
    /\ Len(charities) >= totalCharities
    /\ error.have = totalCharities - 1
    /\ \E i \in RowNumbers : FailsValidation(i) /\ charities[i].featured = "NATIONAL"

(***************************************************************************)
(* The rows a call can return when its plan is n national and s state      *)
(* rows: the rows the rule can select and the rows the fill step can add,  *)
(* over the outcomes that pass the final validation (lines 213-245).       *)
(***************************************************************************)
RowsOfPlan(profile, national, state, n, s) ==
    UNION { LET remainingNationalCharities == FilterNotSelected(national, t.national)
                remainingStateCharities == FilterNotSelected(state, t.state)
            IN IF \/ Len(remainingNationalCharities) < t.remainingNational
                  \/ Len(remainingStateCharities) < t.remainingState
               THEN {}
               ELSE Range(t.national) \cup Range(t.state)
                    \cup UNION { Range(additionalNational) :
                                   additionalNational \in
                                       selectRandomItems(remainingNationalCharities,
                                                         t.remainingNational) }
                    \cup UNION { Range(additionalState) :
                                   additionalState \in
                                       selectRandomItems(remainingStateCharities,
                                                         t.remainingState) } :
            t \in applyTailoringRules(profile, national, state, n, s) }

\* the rows some execution of the call returns, over all its random choices
PossibleRows ==
    LET national == NationalPool
        state == StatePool
    IN UNION { LET plan == PlanFor(userProfile, national, state, r)
               IN IF plan.error # NoError THEN {}
                  ELSE RowsOfPlan(userProfile, national, state,
                                  plan.national, plan.state) :
               r \in InitialDraws(state) }

(***************************************************************************)
(* C29: for inputs with pairwise distinct ids, when the call can succeed   *)
(* (usable supply of at least 12), every valid NATIONAL row and every      *)
(* valid STATE row of the user's state is                                  *)
(* returned by some execution, for users with and without pets; a call     *)
(* that cannot succeed returns no row.                                     *)
(***************************************************************************)
C29_EveryEligibleCanBePicked ==
    (pc = "start" /\ DistinctIds) =>
        IF UsableSupply >= totalCharities
        THEN PossibleRows = Eligible
        ELSE PossibleRows = {}

\* a user with pets and at least 4 animal charities eligible was returned
\* non-animal charities of both pools, from a state pool too large to be used
\* in full
C29_Witness ==
    /\ Returned
    /\ userProfile.hasPets
    /\ DistinctIds
    /\ Cardinality(EligibleAnimals) >= minAnimalCharitiesIfPets
    /\ Cardinality(EligibleState) > maxStateCharities
    /\ \E k \in 1..Len(result) : IsMatchingState(result[k]) /\ ~IsAnimal(result[k])
    /\ \E k \in 1..Len(result) : IsNational(result[k]) /\ ~IsAnimal(result[k])
    /\ Range(result) \subseteq PossibleRows

(***************************************************************************)
(* Inputs for the pet adjustment (lines 157-185): PetsNational national    *)
(* rows, the fewest with which the national animal charities can outnumber *)
(* the smallest national target (12 - 5 = 7), any number of them animal    *)
(* charities; up to MaxAnimal animal and PetsStateOther other state rows;  *)
(* and two inputs the supply checks reject.                                *)
(***************************************************************************)
PetsNational == totalCharities - maxStateCharities + 1
PetsStateOther == 2

PetsCharities ==
    {MakeCharities(a, PetsNational - a, c, d, "plain") :
        a \in 0..PetsNational, c \in 0..MaxAnimal, d \in 0..PetsStateOther}
    \cup {MakeCharities(0, 6, 0, 6, "plain"), MakeCharities(0, 6, 0, 5, "plain")}

InitPets == InitWith(PetsCharities)

SpecPets == InitPets /\ [][Next]_vars

(***************************************************************************)
(* C30: in the pet adjustment the national target is at least 7 and the    *)
(* 'increase national count' branch is never taken; whenever a user with   *)
(* pets has at least 4 animal charities eligible and the drawn plan cannot *)
(* hold 4 of them, the 'increase state count' branch is taken and sets the *)
(* state target to 4 minus the number of national animal charities, within *)
(* min(5, state pool), leaving both targets non-negative and summing to    *)
(* 12; in every other case the targets are left as drawn.                  *)
(***************************************************************************)
C30_NationalBranchDead ==
    /\ [](pc = "pets" =>
            LET adjusted == PetAdjust(userProfile, nationalCharities, stateCharities,
                                      selectedNationalCount, selectedStateCount)
                availableAnimalNational ==
                    Len(FilterCategory(nationalCharities, "ANIMAL_RELATED"))
                availableAnimalState ==
                    Len(FilterCategory(stateCharities, "ANIMAL_RELATED"))
                cannotHold ==
                    /\ userProfile.hasPets
                    /\ availableAnimalNational + availableAnimalState
                          >= minAnimalCharitiesIfPets
                    /\ Min2(availableAnimalState, selectedStateCount)
                          + Min2(availableAnimalNational, selectedNationalCount)
                          < minAnimalCharitiesIfPets
            IN /\ selectedNationalCount >= totalCharities - maxStateCharities
               /\ adjusted.branch # "national"
               /\ cannotHold <=> adjusted.branch = "state"
               /\ cannotHold => availableAnimalNational < minAnimalCharitiesIfPets)
    /\ [][pc = "pets" =>
            LET availableAnimalNational ==
                    Len(FilterCategory(nationalCharities, "ANIMAL_RELATED"))
            IN /\ selectedStateCount' >= selectedStateCount
               /\ selectedStateCount' # selectedStateCount =>
                     selectedStateCount'
                        = minAnimalCharitiesIfPets - availableAnimalNational
               /\ selectedStateCount'
                     <= Min2(maxStateCharities, Len(stateCharities))
               /\ selectedNationalCount' = totalCharities - selectedStateCount'
               /\ selectedNationalCount' >= 0
               /\ selectedStateCount' >= 0 ]_vars

\* the state target was raised to 4 - 1 = 3 for a user with pets, one
\* national animal charity and a plan drawn with no state charity
C30_Witness ==
    /\ pc = "shortage"
    /\ userProfile.hasPets
    /\ randomDrawn
    /\ Len(FilterCategory(nationalCharities, "ANIMAL_RELATED")) = 1
    /\ Len(FilterCategory(stateCharities, "ANIMAL_RELATED")) = 3
    /\ selectedStateCount = 3
    /\ selectedNationalCount = totalCharities - 3

====
